---- MODULE Spec2Model ----
(***************************************************************************)
(* The real-time connection registry (app/websocket/manager.py), the       *)
(* per-connection handler life cycle (app/websocket/handler.py) and the    *)
(* message-push service (app/services/core/websocket_service.py).          *)
(*                                                                         *)
(* Every coroutine is cut at its awaits: the code between two awaits runs  *)
(* without interruption on the event loop, so it is one step here, and     *)
(* another task may run only while a coroutine is suspended in an await.   *)
(***************************************************************************)
EXTENDS Integers, Sequences, FiniteSets, TLC

\* ------------------------------------------------------------------ bounds

\* Number of WebSocket objects in the sequential specification (SeqSpec).
MaxConns == 3
\* Number of WebSocket objects in the interleaved specification (Spec).
MaxConcConns == 2

\* Number of WebSocket objects in the protocol specification (HandlerSpec).
MaxProtoConns == 2
\* Number of inbound frames the clients send in a run of HandlerSpec.
MaxFrames == 2
\* Number of _format_message calls on one message object (FmtSpec).
MaxFmtCalls == 2

\* Number of WebSocket objects in the specification with queries (QuerySpec).
MaxQueryConns == 2

Conns == 1..MaxConns
QueryConns == 1..MaxQueryConns
ConcConns == 1..MaxConcConns
ProtoConns == 1..MaxProtoConns

\* User identities: non-empty strings, as the path parameter of /ws/{user_id}.
Users == {"A", "B", "C"}
ConcUsers == {"A", "B"}

\* Python's None (the result of dict.get on a missing key, an omitted
\* optional argument).
None == "None"

\* Python truth value of an Optional[str]: None and "" are false.
Truthy(x) == x /= None /\ x /= ""

\* ------------------------------------------------------------------- state

VARIABLES
    active_connections,  \* manager.active_connections: user_id -> set of websockets
    connection_to_user,  \* manager.connection_to_user: websocket -> user_id
    transport,           \* per websocket: "new" (awaiting accept), "open", "closed"
    h_pc,                \* per websocket: where its handle_connection coroutine is
    h_user,              \* per websocket: handler.user_id (None before the handler exists)
    h_disconnects,       \* per websocket: calls of manager.disconnect made by its handler
    h_hooks,             \* per websocket: the hooks handle_connection ran when it was left
    spm,                 \* frame of the running send_personal_message
    grp,                 \* frame of the running send_message_to_group
    bc,                  \* frame of the running broadcast
    result,              \* what the call that just finished gave its caller
    obs,                 \* history of the running call: registry at its start, sends made
    live,                \* history: websocket -> identity, for the websockets a connect
                         \* registered and no disconnect was called on since
    message,             \* the dict object given to _format_message (changed in place)
    fmt_arg,             \* history: that dict as the caller built it
    fmt_prev,            \* history: that dict before the last _format_message call
    fmt_calls,           \* history: _format_message calls made on it
    h_kind,              \* per websocket: the class of its handler ("none": no handler)
    h_frame,             \* per websocket: the last frame receive_text gave its handler
    frames,              \* history: the frames receive_text has given in this run
    h_reply,             \* per websocket: the payload whose send its handler awaits
    outbox,              \* history: per websocket, the payloads sent on it, in order,
                         \* since its handler took the last frame (or was made)
    returned             \* what the last query of the registry gave its caller

regVars == <<active_connections, connection_to_user>>
handlerVars == <<h_pc, h_user, h_disconnects, h_hooks>>
callVars == <<spm, grp, bc, result, obs>>
histVars == <<live>>
fmtVars == <<message, fmt_arg, fmt_prev, fmt_calls>>
protoVars == <<h_kind, h_frame, frames, h_reply, outbox>>
queryVars == <<returned>>
vars == <<active_connections, connection_to_user, transport, h_pc, h_user,
          h_disconnects, h_hooks, spm, grp, bc, result, obs, live,
          message, fmt_arg, fmt_prev, fmt_calls,
          h_kind, h_frame, frames, h_reply, outbox, returned>>

\* ------------------------------------------------------- registry (manager.py)

\* A dict without key k.
DictDel(d, k) == [x \in (DOMAIN d) \ {k} |-> d[x]]

\* A dict with d[k] = v (k added when missing).
DictSet(d, k, v) == [x \in (DOMAIN d) \cup {k} |-> IF x = k THEN v ELSE d[x]]

\* A faulty connect: the user's set is replaced instead of added to.
connect_overwrites(ac, c2u, websocket, user_id) ==
    [ac |-> DictSet(ac, user_id, {websocket}),
     c2u |-> DictSet(c2u, websocket, user_id)]

\* ConnectionManager.connect after the accept: lines 62-66.
connect(ac, c2u, websocket, user_id) ==
    LET ac1 == IF user_id \notin DOMAIN ac THEN DictSet(ac, user_id, {}) ELSE ac
        ac2 == DictSet(ac1, user_id, ac1[user_id] \cup {websocket})
    IN  [ac |-> ac2, c2u |-> DictSet(c2u, websocket, user_id)]

\* A faulty connect: the websocket is registered before the accept is awaited.
connect_registers_first(ac, c2u, websocket, user_id) ==
    connect(ac, c2u, websocket, user_id)

\* ConnectionManager.connect when the accept raises: line 59 is left by the
\* exception and lines 62-66 are not reached.
connect_accept_failed(ac, c2u, websocket, user_id) == [ac |-> ac, c2u |-> c2u]

\* A faulty disconnect: the user's entry is kept when its set gets empty.
disconnect_keeps_empty(ac, c2u, websocket) ==
    LET user_id == IF websocket \in DOMAIN c2u THEN c2u[websocket] ELSE None
    IN  IF Truthy(user_id)
        THEN [ac |-> IF user_id \in DOMAIN ac
                     THEN DictSet(ac, user_id, ac[user_id] \ {websocket}) ELSE ac,
              c2u |-> DictDel(c2u, websocket), ret |-> user_id]
        ELSE [ac |-> ac, c2u |-> c2u, ret |-> user_id]

\* A faulty disconnect: the look-up defaults to "" instead of None.
disconnect_default(ac, c2u, websocket) ==
    LET user_id == IF websocket \in DOMAIN c2u THEN c2u[websocket] ELSE ""
    IN  IF Truthy(user_id)
        THEN LET ac1 == IF user_id \in DOMAIN ac
                        THEN LET s == ac[user_id] \ {websocket}
                             IN  IF s = {} THEN DictDel(ac, user_id)
                                           ELSE DictSet(ac, user_id, s)
                        ELSE ac
             IN  [ac |-> ac1, c2u |-> DictDel(c2u, websocket), ret |-> user_id]
        ELSE [ac |-> ac, c2u |-> c2u, ret |-> user_id]

\* ConnectionManager.disconnect: the registry it leaves and the value it returns.
disconnect(ac, c2u, websocket) ==
    LET user_id == IF websocket \in DOMAIN c2u THEN c2u[websocket] ELSE None
    IN  IF Truthy(user_id)
        THEN LET ac1 == IF user_id \in DOMAIN ac
                        THEN LET s == ac[user_id] \ {websocket}
                             IN  IF s = {} THEN DictDel(ac, user_id)
                                           ELSE DictSet(ac, user_id, s)
                        ELSE ac
             IN  [ac |-> ac1, c2u |-> DictDel(c2u, websocket), ret |-> user_id]
        ELSE [ac |-> ac, c2u |-> c2u, ret |-> user_id]

\* The clean-up loops of send_personal_message and broadcast:
\* for websocket in disconnected_connections: self.disconnect(websocket).
RECURSIVE disconnect_all(_, _, _)
disconnect_all(ac, c2u, S) ==
    IF S = {} THEN [ac |-> ac, c2u |-> c2u]
    ELSE LET w == CHOOSE x \in S : TRUE
             r == disconnect(ac, c2u, w)
         IN  disconnect_all(r.ac, r.c2u, S \ {w})

get_user_connections_count(user_id) ==
    IF user_id \notin DOMAIN active_connections THEN 0
    ELSE Cardinality(active_connections[user_id])

RECURSIVE SumSizes(_, _)
SumSizes(ac, K) ==
    IF K = {} THEN 0
    ELSE LET k == CHOOSE x \in K : TRUE
         IN  Cardinality(ac[k]) + SumSizes(ac, K \ {k})

\* A faulty total: the users are counted, not their websockets.
get_total_connections_count_users == Cardinality(DOMAIN active_connections)

get_total_connections_count == SumSizes(active_connections, DOMAIN active_connections)

get_connected_users == DOMAIN active_connections

is_user_connected(user_id) ==
    /\ user_id \in DOMAIN active_connections
    /\ Cardinality(active_connections[user_id]) > 0

\* list(s) of a set s: its members, each once, in the order of the iteration.
RECURSIVE list(_)
list(S) ==
    IF S = {} THEN <<>>
    ELSE LET x == CHOOSE y \in S : TRUE IN <<x>> \o list(S \ {x})

\* The stats dict of websocket_stats: main.py 354-358. No await lies between
\* its three reads of the registry.
websocket_stats ==
    [total_connections |-> get_total_connections_count,
     connected_users_count |-> Cardinality(get_connected_users),
     connected_users |-> list(get_connected_users)]

\* ------------------------------------------------- frames of the running calls

\* No send_personal_message is running.
NoSpm == [pc |-> "none", user_id |-> None, used |-> 0, orig |-> {}, seen |-> {},
          detached |-> FALSE, websocket |-> 0,
          disconnected_connections |-> {}, success_count |-> 0]

\* No send_message_to_group is running.
NoGrp == [pc |-> "none", members |-> <<>>, idx |-> 0, exclude_user_id |-> None,
          success_count |-> 0]

\* No broadcast is running.
NoBc == [pc |-> "none", todo |-> {}, websocket |-> 0, exclude_user |-> None,
         disconnected_connections |-> {}, success_count |-> 0]

\* No call has just finished.
NoResult == [op |-> "none", user_id |-> None, websocket |-> 0, members |-> <<>>,
             exclude |-> None, value |-> None, raised |-> FALSE]

\* No call is running: nothing to remember about it.
NoObs == [ac |-> << >>, c2u |-> << >>, sends |-> [c \in Conns |-> 0],
          delivered |-> {}, failed |-> {}]

\* No call is running and none waits for its caller to take the result.
Idle == spm.pc = "none" /\ grp.pc = "none" /\ bc.pc = "none" /\ result.op = "none"

\* ------------------------------------------------------------------ transport

\* WebSocket objects are taken in the order of their numbers: which object
\* serves which client does not matter.
CanUse(c) == \A d \in 1..(c - 1) : transport[d] /= "new"

\* The client goes away or the network fails: from now on accept, send_text and
\* receive_text on this websocket raise.
TransportBreak(c) ==
    /\ result.op = "none"
    /\ transport[c] /= "closed"
    /\ h_pc[c] /= "closed"
    /\ (h_pc[c] /= "idle" \/ CanUse(c))
    /\ transport' = [transport EXCEPT ![c] = "closed"]
    /\ UNCHANGED <<regVars, handlerVars, callVars, histVars>>

\* ------------------------------------------------- handler (handler.py)

\* handler.websocket: set by the first statement of on_connect (0: still None).
self_websocket(c) == IF h_pc[c] = "idle" THEN 0 ELSE c

\* A faulty on_disconnect: every websocket of the handler's user is unregistered.
on_disconnect_user(ac, c2u, c) ==
    IF self_websocket(c) /= 0
    THEN LET S == IF c \in DOMAIN c2u /\ c2u[c] \in DOMAIN ac THEN ac[c2u[c]] ELSE {c}
             r == disconnect_all(ac, c2u, S)
         IN  [ac |-> r.ac, c2u |-> r.c2u, calls |-> 1]
    ELSE [ac |-> ac, c2u |-> c2u, calls |-> 0]

\* A faulty on_disconnect: it only logs and leaves the websocket registered.
on_disconnect_logs(ac, c2u, c) ==
    [ac |-> ac, c2u |-> c2u, calls |-> IF self_websocket(c) /= 0 THEN 1 ELSE 0]

\* WebSocketHandler.on_disconnect: the registry it leaves.
on_disconnect(ac, c2u, c) ==
    IF self_websocket(c) /= 0
    THEN LET r == disconnect(ac, c2u, c) IN [ac |-> r.ac, c2u |-> r.c2u, calls |-> 1]
    ELSE [ac |-> ac, c2u |-> c2u, calls |-> 0]

\* A faulty handle_connection: on_disconnect after the loop instead of in a
\* finally clause, so that a failed on_connect skips it.
handle_connection_exit_no_finally(cause, err1, err2) ==
    IF cause = "disconnect" THEN <<"on_disconnect">>
    ELSE IF cause = "connect_error" THEN <<"on_error">>
    ELSE IF err1 THEN <<"on_error", "on_error">>
    ELSE <<"on_error", "on_disconnect">>

\* The try/except/finally of handle_connection: the hooks it runs, in order, once
\* the loop or on_connect is left for `cause`. err1 and err2 say whether the
\* first and the second call of on_error raise (a subclass's on_error may send).
\*   "disconnect"     receive_text raised WebSocketDisconnect (line 211)
\*   "loop_error"     receive_text or on_message raised another exception (line 214)
\*   "connect_error"  on_connect raised: failed accept or failed welcome (line 221)
handle_connection_exit(cause, err1, err2) ==
    IF cause = "disconnect" THEN <<"on_disconnect">>
    ELSE IF cause = "connect_error" THEN <<"on_error", "on_disconnect">>
    ELSE IF err1 THEN <<"on_error", "on_error", "on_disconnect">>
    ELSE <<"on_error", "on_disconnect">>

\* The registry after the on_disconnect calls of a hook trace, with their number.
RECURSIVE run_hooks(_, _, _, _)
run_hooks(ac, c2u, c, hooks) ==
    IF hooks = <<>> THEN [ac |-> ac, c2u |-> c2u, calls |-> 0]
    ELSE IF Head(hooks) = "on_disconnect"
         THEN LET r == on_disconnect(ac, c2u, c)
                  t == run_hooks(r.ac, r.c2u, c, Tail(hooks))
              IN  [ac |-> t.ac, c2u |-> t.c2u, calls |-> r.calls + t.calls]
         ELSE run_hooks(ac, c2u, c, Tail(hooks))

\* handle_connection leaves for `cause`: lines 211-226. The endpoint returns and
\* the server closes the socket.
HandlerExitWith(c, cause, err1, err2) ==
    LET hooks == handle_connection_exit(cause, err1, err2)
        r == run_hooks(active_connections, connection_to_user, c, hooks)
    IN  /\ active_connections' = r.ac
        /\ connection_to_user' = r.c2u
        /\ h_pc' = [h_pc EXCEPT ![c] = "closed"]
        \* the endpoint returns and drops the handler object
        /\ h_user' = [h_user EXCEPT ![c] = None]
        /\ h_disconnects' = [h_disconnects EXCEPT ![c] = @ + r.calls]
        /\ h_hooks' = [h_hooks EXCEPT ![c] = hooks]
        /\ transport' = [transport EXCEPT ![c] = "closed"]
        /\ live' = IF r.calls > 0 THEN DictDel(live, c) ELSE live
        \* the set object a running send_personal_message iterates leaves the dict
        /\ spm' = IF spm.pc = "sending" /\ spm.user_id \notin DOMAIN r.ac
                  THEN [spm EXCEPT !.detached = TRUE] ELSE spm
        /\ UNCHANGED <<grp, bc, result, obs>>

\* The same for a handler class whose on_error may raise or not.
HandlerExit(c, cause) ==
    \E err1, err2 \in BOOLEAN : HandlerExitWith(c, cause, err1, err2)

\* websocket_endpoint: a handler is made for the websocket and handle_connection
\* starts; on_connect sets self.websocket and awaits the accept (lines 61-62, 59).
HandlerStart(c, u) ==
    /\ result.op = "none"
    /\ h_pc[c] = "idle"
    /\ \A d \in 1..(c - 1) : h_pc[d] /= "idle"
    /\ h_pc' = [h_pc EXCEPT ![c] = "accept"]
    /\ h_user' = [h_user EXCEPT ![c] = u]
    /\ UNCHANGED <<regVars, transport, h_disconnects, h_hooks, callVars, histVars>>

\* The accept returns: the connection is registered and the welcome send starts
\* (manager.py 62-66, handler.py 242); or the accept raises.
HandlerAccept(c) ==
    /\ result.op = "none"
    /\ h_pc[c] = "accept"
    /\ \/ /\ transport[c] = "new"
          /\ LET r == connect(active_connections, connection_to_user, c, h_user[c])
             IN  /\ active_connections' = r.ac
                 /\ connection_to_user' = r.c2u
          /\ transport' = [transport EXCEPT ![c] = "open"]
          /\ h_pc' = [h_pc EXCEPT ![c] = "welcome"]
          /\ live' = DictSet(live, c, h_user[c])
          /\ UNCHANGED <<h_user, h_disconnects, h_hooks, callVars>>
       \/ /\ transport[c] /= "new"
          /\ HandlerExit(c, "connect_error")

\* The welcome send returns and the loop awaits receive_text; or the send raises.
HandlerWelcome(c) ==
    /\ result.op = "none"
    /\ h_pc[c] = "welcome"
    /\ \/ /\ transport[c] = "open"
          /\ h_pc' = [h_pc EXCEPT ![c] = "receive"]
          /\ UNCHANGED <<regVars, transport, h_user, h_disconnects, h_hooks, callVars, histVars>>
       \/ /\ transport[c] /= "open"
          /\ HandlerExit(c, "connect_error")

\* The loop ends. On a closed transport receive_text raises WebSocketDisconnect
\* (line 211). Or another exception reaches line 214: receive_text raises it
\* (a closed transport, a frame that is not text), or a frame came in and its
\* reply and the send_error after it both fail, so that it leaves on_message.
HandlerLeave(c) ==
    /\ result.op = "none"
    /\ h_pc[c] = "receive"
    /\ \/ transport[c] = "closed" /\ HandlerExit(c, "disconnect")
       \/ HandlerExit(c, "loop_error")

\* ------------------------------------- send_personal_message (manager.py)

\* websocket.send_text: returns on an open transport, raises otherwise.
send_ok(c) == transport[c] = "open"

\* History of the running call after the send on c.
ObsSend(c) ==
    [obs EXCEPT !.sends[c] = @ + 1,
                !.delivered = IF send_ok(c) THEN @ \cup {c} ELSE @,
                !.failed = IF send_ok(c) THEN @ ELSE @ \cup {c}]

\* History of a call that starts now.
ObsStart ==
    [NoObs EXCEPT !.ac = active_connections, !.c2u = connection_to_user]

\* The frame once `for websocket in self.active_connections[user_id]` (line 142)
\* has given its first websocket c and the send on it is awaited (line 144). The
\* iterator is over the live set object: it remembers the size the set had
\* (used), the set's members then (orig) and what it has given so far (seen).
spm_begin(ac, user_id, c) ==
    [pc |-> "sending", user_id |-> user_id, used |-> Cardinality(ac[user_id]),
     orig |-> ac[user_id], seen |-> {}, detached |-> FALSE, websocket |-> c,
     disconnected_connections |-> {}, success_count |-> 0]

\* A faulty loop body: the websocket is marked as disconnected after every
\* send, failed or not.
spm_after_send_drops(f, ok) ==
    [f EXCEPT !.seen = @ \cup {f.websocket},
              !.success_count = IF ok THEN @ + 1 ELSE @,
              !.disconnected_connections = @ \cup {f.websocket}]

\* The frame after the send on frame.websocket came back: lines 144-149.
spm_after_send(f, ok) ==
    [f EXCEPT !.seen = @ \cup {f.websocket},
              !.success_count = IF ok THEN @ + 1 ELSE @,
              !.disconnected_connections = IF ok THEN @ ELSE @ \cup {f.websocket}]

\* The set iterator's next() raises "RuntimeError: Set changed size during
\* iteration": the set object has another size than when the loop started. A
\* set object whose last member was discarded has left the dict (line 97) and
\* stays empty, whatever is registered for the user afterwards.
iter_raises(f, ac) ==
    \/ f.detached
    \/ f.user_id \notin DOMAIN ac
    \/ Cardinality(ac[f.user_id]) /= f.used

\* What next() may give: a member not given yet. A member added during the
\* loop lies before or after the iterator's place in the hash table, so it is
\* given or passed over; the members the loop started with are all given.
iter_rest(f, ac) == ac[f.user_id] \ f.seen
iter_may_stop(f, ac) == (ac[f.user_id] \cap f.orig) \subseteq f.seen

\* A faulty return value: True as soon as a send was tried.
spm_value_tried(f) == f.seen /= {}

\* The value send_personal_message returns: lines 155-160.
spm_value(f) == f.success_count > 0

\* A faulty send_personal_message: no clean-up.
spm_cleanup_skipped(ac, c2u, f) == [ac |-> ac, c2u |-> c2u]

\* A faulty clean-up: every registered websocket with a closed transport is
\* unregistered, whoever its user is.
spm_cleanup_closed(ac, c2u, f) ==
    disconnect_all(ac, c2u, f.disconnected_connections
                            \cup {c \in DOMAIN c2u : transport[c] = "closed"})

\* The clean-up of send_personal_message: lines 152-153.
spm_cleanup(ac, c2u, f) == disconnect_all(ac, c2u, f.disconnected_connections)

\* ----------------------------- send_message_to_group (websocket_service.py)

\* The member lists the membership repository gives: the members of a group in
\* joining order, each user once (unique key group_id, user_id). Which user
\* joined first does not matter: the groups are the users up to some place of
\* one joining order.
JoinOrder == <<"A", "B", "C">>
MemberLists == {SubSeq(JoinOrder, 1, n) : n \in 0..Len(JoinOrder)}

\* A faulty group loop: the excluded member is not skipped.
RECURSIVE next_member_no_exclude(_, _, _, _)
next_member_no_exclude(members, i, exclude_user_id, ac) ==
    IF i > Len(members) THEN i
    ELSE IF members[i] \notin DOMAIN ac
         THEN next_member_no_exclude(members, i + 1, exclude_user_id, ac)
    ELSE i

\* The loop of lines 107-118 from member i on, up to the first member whose
\* send_personal_message suspends in a send: an excluded member is skipped
\* (line 109), and for a member without entry send_personal_message returns
\* False at once (manager.py 128-130). Len(members) + 1: the loop is over.
RECURSIVE next_member(_, _, _, _)
next_member(members, i, exclude_user_id, ac) ==
    IF i > Len(members) THEN i
    ELSE IF Truthy(exclude_user_id) /\ members[i] = exclude_user_id
         THEN next_member(members, i + 1, exclude_user_id, ac)
    ELSE IF members[i] \notin DOMAIN ac
         THEN next_member(members, i + 1, exclude_user_id, ac)
    ELSE i

\* A faulty count: every member sent to is counted.
grp_count_all(n, b) == n + 1

\* success_count after a member's send_personal_message returned b: lines 117-118.
grp_count(n, b) == IF b THEN n + 1 ELSE n

\* The group loop goes on from member i, or send_message_to_group returns.
GrpContinue(ac, members, i, exclude_user_id, count) ==
    LET j == next_member(members, i, exclude_user_id, ac)
    IN  IF j > Len(members)
        THEN /\ result' = [NoResult EXCEPT !.op = "send_message_to_group",
                               !.members = members, !.exclude = exclude_user_id,
                               !.value = count]
             /\ spm' = NoSpm
             /\ grp' = NoGrp
        ELSE /\ \E c \in ac[members[j]] : spm' = spm_begin(ac, members[j], c)
             /\ grp' = [pc |-> "running", members |-> members, idx |-> j,
                        exclude_user_id |-> exclude_user_id, success_count |-> count]
             /\ result' = result

\* send_message_to_group(group_id, message, exclude_user_id) runs up to its
\* first await that suspends, or to its return; members is what
\* get_members_by_group gives for group_id.
SendMessageToGroupStart(members, exclude_user_id) ==
    /\ Idle
    /\ obs' = ObsStart
    /\ IF members = <<>>
       THEN /\ result' = [NoResult EXCEPT !.op = "send_message_to_group",
                              !.exclude = exclude_user_id, !.value = 0]
            /\ UNCHANGED <<spm, grp>>
       ELSE GrpContinue(active_connections, members, 1, exclude_user_id, 0)

\* send_message_to_group is called by a task of its own.
CallSendMessageToGroup(members, exclude_user_id) ==
    /\ SendMessageToGroupStart(members, exclude_user_id)
    /\ UNCHANGED <<regVars, transport, handlerVars, bc, histVars>>

\* send_personal_message(message, user_id) is called by a task of its own.
CallSendPersonalMessage(user_id) ==
    /\ Idle
    /\ obs' = ObsStart
    /\ IF user_id \notin DOMAIN active_connections
       THEN /\ result' = [NoResult EXCEPT !.op = "send_personal_message",
                              !.user_id = user_id, !.value = FALSE]
            /\ spm' = spm
       ELSE /\ \E c \in active_connections[user_id] :
                  spm' = spm_begin(active_connections, user_id, c)
            /\ result' = result
    /\ UNCHANGED <<regVars, transport, handlerVars, grp, bc, histVars>>

\* The loop of send_personal_message is over: clean-up, return to the caller,
\* which is send_message_to_group (its loop goes on) or a task of its own.
SpmReturn(f) ==
    LET r == spm_cleanup(active_connections, connection_to_user, f)
    IN  /\ active_connections' = r.ac
        /\ connection_to_user' = r.c2u
        /\ live' = [x \in (DOMAIN live) \ f.disconnected_connections |-> live[x]]
        /\ IF grp.pc = "none"
           THEN /\ result' = [NoResult EXCEPT !.op = "send_personal_message",
                                  !.user_id = f.user_id, !.value = spm_value(f)]
                /\ spm' = NoSpm
                /\ grp' = grp
           ELSE GrpContinue(r.ac, grp.members, grp.idx + 1, grp.exclude_user_id,
                            grp_count(grp.success_count, spm_value(f)))
        /\ UNCHANGED <<transport, handlerVars, bc>>

\* next() raises in the for statement, outside the try of lines 143-149: the
\* exception leaves send_personal_message, and send_message_to_group if that is
\* the caller, without the clean-up.
SpmRaise(f) ==
    /\ result' = [NoResult EXCEPT
                     !.op = IF grp.pc = "none" THEN "send_personal_message"
                                               ELSE "send_message_to_group",
                     !.user_id = f.user_id, !.raised = TRUE]
    /\ spm' = NoSpm
    /\ grp' = NoGrp
    /\ UNCHANGED <<regVars, transport, handlerVars, bc, histVars>>

\* The awaited send of send_personal_message comes back; the loop takes its
\* next websocket and awaits that send, or ends.
SpmSendDone ==
    /\ spm.pc = "sending"
    /\ LET f == spm_after_send(spm, send_ok(spm.websocket))
       IN  /\ obs' = ObsSend(spm.websocket)
           /\ IF iter_raises(f, active_connections)
              THEN SpmRaise(f)
              ELSE \/ /\ \E c \in iter_rest(f, active_connections) :
                            spm' = [f EXCEPT !.websocket = c]
                      /\ UNCHANGED <<regVars, transport, handlerVars, grp, bc,
                                     result, histVars>>
                   \/ /\ iter_may_stop(f, active_connections)
                      /\ SpmReturn(f)

\* ------------------------------------------------------ broadcast (manager.py)

\* A faulty broadcast list: exclude_user is ignored.
all_connections_everyone(ac, exclude_user) == UNION {ac[u] : u \in DOMAIN ac}

\* all_connections of broadcast: lines 191-195. The sets of the forward index
\* are disjoint, so the list holds each websocket once.
all_connections(ac, exclude_user) ==
    UNION {ac[u] : u \in {x \in DOMAIN ac : ~(Truthy(exclude_user) /\ x = exclude_user)}}

\* A faulty loop: a websocket of the list that is no longer registered when its
\* turn comes is passed over.
bc_todo_registered(f, c2u) == f.todo \cap DOMAIN c2u

\* What is left of the list all_connections for the loop of lines 201-208: the
\* list was built when the call started and the registry is not looked at.
bc_todo(f, c2u) == f.todo

\* The clean-up of broadcast: lines 211-212.
bc_cleanup(ac, c2u, f) == disconnect_all(ac, c2u, f.disconnected_connections)

\* The frame after the send on frame.websocket came back: lines 202-208.
bc_after_send(f, ok) ==
    [f EXCEPT !.success_count = IF ok THEN @ + 1 ELSE @,
              !.disconnected_connections = IF ok THEN @ ELSE @ \cup {f.websocket}]

\* The loop of broadcast is over: clean-up and return of success_count.
BcReturn(f) ==
    LET r == bc_cleanup(active_connections, connection_to_user, f)
    IN  /\ active_connections' = r.ac
        /\ connection_to_user' = r.c2u
        /\ live' = [x \in (DOMAIN live) \ f.disconnected_connections |-> live[x]]
        /\ result' = [NoResult EXCEPT !.op = "broadcast", !.exclude = f.exclude_user,
                          !.value = f.success_count]
        /\ bc' = NoBc
        \* the set object a running send_personal_message iterates cannot leave
        \* the dict here: one caller runs one call at a time
        /\ UNCHANGED <<transport, handlerVars, spm, grp>>

\* broadcast(message, exclude_user) is called: the list is built and the first
\* send is awaited, or there is nothing to send.
CallBroadcast(exclude_user) ==
    /\ Idle
    /\ obs' = ObsStart
    /\ LET all == all_connections(active_connections, exclude_user)
       IN  IF all = {}
           THEN /\ result' = [NoResult EXCEPT !.op = "broadcast",
                                  !.exclude = exclude_user, !.value = 0]
                /\ bc' = bc
           ELSE /\ \E c \in all :
                      bc' = [pc |-> "sending", todo |-> all \ {c}, websocket |-> c,
                             exclude_user |-> exclude_user,
                             disconnected_connections |-> {}, success_count |-> 0]
                /\ result' = result
    /\ UNCHANGED <<regVars, transport, handlerVars, spm, grp, histVars>>

\* The awaited send of broadcast comes back; the loop goes to the next websocket
\* of the list or ends.
BcSendDone ==
    /\ bc.pc = "sending"
    /\ LET f == bc_after_send(bc, send_ok(bc.websocket))
       IN  /\ obs' = ObsSend(bc.websocket)
           /\ IF bc_todo(f, connection_to_user) = {}
              THEN BcReturn(f)
              ELSE /\ \E c \in bc_todo(f, connection_to_user) :
                         bc' = [f EXCEPT !.websocket = c, !.todo = @ \ {c}]
                   /\ UNCHANGED <<regVars, transport, handlerVars, spm, grp,
                                  result, histVars>>

\* The caller has its result; the next call can start.
TakeResult ==
    /\ result.op /= "none"
    /\ result' = NoResult
    /\ obs' = NoObs
    /\ UNCHANGED <<regVars, transport, handlerVars, spm, grp, bc, histVars>>

\* ------------------------------------- direct calls of connect and disconnect

\* await manager.connect(websocket, user_id) by a caller of its own, on a
\* websocket no handler serves: the accept, then the registration. The accept
\* raises on a websocket that is closed or was accepted before, and nothing is
\* registered then.
ApiConnect(c, user_id) ==
    /\ Idle
    /\ CanUse(c)
    /\ h_pc[c] = "idle"
    /\ obs' = ObsStart
    /\ IF transport[c] = "new"
       THEN /\ LET r == connect(active_connections, connection_to_user, c, user_id)
               IN  /\ active_connections' = r.ac
                   /\ connection_to_user' = r.c2u
            /\ transport' = [transport EXCEPT ![c] = "open"]
            /\ live' = DictSet(live, c, user_id)
            /\ result' = [NoResult EXCEPT !.op = "connect", !.websocket = c,
                              !.user_id = user_id]
       ELSE /\ LET r == connect_accept_failed(active_connections, connection_to_user,
                                               c, user_id)
               IN  /\ active_connections' = r.ac
                   /\ connection_to_user' = r.c2u
            /\ result' = [NoResult EXCEPT !.op = "connect", !.websocket = c,
                              !.user_id = user_id, !.raised = TRUE]
            /\ UNCHANGED <<transport, live>>
    /\ UNCHANGED <<handlerVars, spm, grp, bc>>

\* manager.disconnect(websocket) by a caller of its own.
ApiDisconnect(c) ==
    /\ Idle
    /\ CanUse(c)
    /\ h_pc[c] = "idle"
    /\ obs' = ObsStart
    /\ LET r == disconnect(active_connections, connection_to_user, c)
       IN  /\ active_connections' = r.ac
           /\ connection_to_user' = r.c2u
           /\ result' = [NoResult EXCEPT !.op = "disconnect", !.websocket = c,
                             !.value = r.ret]
    /\ live' = DictDel(live, c)
    /\ UNCHANGED <<transport, handlerVars, spm, grp, bc>>

\* ------------------------------------------- queries of the registry (manager.py)

\* The identities a caller may give connect: it does not look at them, so the
\* empty string is one of them.
QueryUsers == {"", "A", "B"}

\* The queries without a side effect.
Queries == {"get_user_connections_count", "get_total_connections_count",
            "get_connected_users", "is_user_connected"}

\* What a query gave: a number, a truth value, or a set object the caller holds.
\* view says that the object is one the registry itself keeps or looks through,
\* users is what the object holds when it is an object of its own.
NoReturned ==
    [op |-> "none", user_id |-> None, count |-> 0, flag |-> FALSE,
     users |-> {}, view |-> FALSE]

\* A faulty get_connected_users: the keys of the dict are returned as they are.
get_connected_users_view == [view |-> TRUE, users |-> {}]

\* The object get_connected_users returns: set(...) makes a new set (line 247).
get_connected_users_object == [view |-> FALSE, users |-> get_connected_users]

\* What the caller finds in the set object it holds.
returned_users ==
    IF returned.view THEN DOMAIN active_connections ELSE returned.users

\* A query is called. The queries are plain functions: no await, so each runs
\* in one step, whatever else is suspended.
CallQuery(op, user_id) ==
    /\ returned' =
          IF op = "get_user_connections_count"
          THEN [NoReturned EXCEPT !.op = op, !.user_id = user_id,
                                  !.count = get_user_connections_count(user_id)]
          ELSE IF op = "get_total_connections_count"
          THEN [NoReturned EXCEPT !.op = op, !.count = get_total_connections_count]
          ELSE IF op = "is_user_connected"
          THEN [NoReturned EXCEPT !.op = op, !.user_id = user_id,
                                  !.flag = is_user_connected(user_id)]
          ELSE [NoReturned EXCEPT !.op = op,
                                  !.users = get_connected_users_object.users,
                                  !.view = get_connected_users_object.view]
    /\ returned' /= returned
    /\ UNCHANGED <<regVars, transport, handlerVars, callVars, histVars>>

\* The caller changes the set it got from get_connected_users: discard(user_id).
\* A set that is the registry's own loses the user there.
CallerDiscards(user_id) ==
    /\ returned.op = "get_connected_users"
    /\ user_id \in returned_users
    /\ IF returned.view
       THEN /\ active_connections' = DictDel(active_connections, user_id)
            /\ UNCHANGED <<connection_to_user, returned>>
       ELSE /\ returned' = [returned EXCEPT !.users = @ \ {user_id}]
            /\ UNCHANGED regVars
    /\ UNCHANGED <<transport, handlerVars, callVars, histVars>>

\* ------------------------------------ _format_message (websocket_service.py)

\* The message dicts a caller builds: any of the fields type, timestamp and
\* content, each with a value. None as a value is JSON null: the key is there.
TypeValues == {None, "custom", "new_message", "message"}
TimestampValues == {None, "t0"}
ContentValues == {"hello", "bye"}
FieldValues(k) ==
    IF k = "type" THEN TypeValues
    ELSE IF k = "timestamp" THEN TimestampValues
    ELSE ContentValues
Messages ==
    UNION {{m \in [K -> TypeValues \cup TimestampValues \cup ContentValues] :
               \A k \in K : m[k] \in FieldValues(k)} :
           K \in SUBSET {"type", "timestamp", "content"}}

\* What datetime.now().isoformat() gives: a later value at every call, none of
\* them a value the caller wrote.
Clock == <<"t1", "t2", "t3">>

\* A faulty normalization: a field that is there with a false value is set too.
format_message_falsy(m, now) ==
    LET m1 == IF "type" \notin DOMAIN m \/ ~Truthy(m["type"])
              THEN DictSet(m, "type", "message") ELSE m
    IN  IF "timestamp" \notin DOMAIN m1 \/ ~Truthy(m1["timestamp"])
        THEN DictSet(m1, "timestamp", now) ELSE m1

\* WebSocketService._format_message: the dict after the call (it is changed in
\* place and returned), now being what the clock gives.
format_message(m, now) ==
    LET m1 == IF "type" \notin DOMAIN m THEN DictSet(m, "type", "message") ELSE m
    IN  IF "timestamp" \notin DOMAIN m1 THEN DictSet(m1, "timestamp", now) ELSE m1

\* _format_message is called on the message object.
FormatMessage ==
    /\ fmt_calls < MaxFmtCalls
    /\ fmt_calls < Len(Clock)
    /\ fmt_prev' = message
    /\ message' = format_message(message, Clock[fmt_calls + 1])
    /\ fmt_calls' = fmt_calls + 1
    /\ UNCHANGED fmt_arg

\* ------------------------------- inbound frames (handler.py, im_handler.py)

\* dict.get(k, default).
DictGet(d, k, default) == IF k \in DOMAIN d THEN d[k] ELSE default

\* An inbound text frame: raw is its text, json says what json.loads makes of
\* it ("invalid": JSONDecodeError; "nonobject": a list, number, string or null;
\* "object": a dict) and data is that dict.
\* n is the frame's number in the run and after is what json.loads made of the
\* frame that came before it on the same websocket; svc and members are filled
\* in when the handler has called the message service for the frame: what the
\* service did and the group's members.
NoFrame == [json |-> "none", data |-> << >>, raw |-> "", n |-> 0, after |-> "none",
            svc |-> "none", members |-> <<>>]
Frame(json, data, raw) ==
    [json |-> json, data |-> data, raw |-> raw, n |-> 0, after |-> "none",
     svc |-> "none", members |-> <<>>]

\* The frames the clients send.
Frames ==
    {Frame("invalid", << >>, "Hello, World!"),
     Frame("nonobject", << >>, "[1]"),
     Frame("object", [type |-> "ping", timestamp |-> "42"], "{ping 42}"),
     Frame("object", [type |-> "ping"], "{ping}"),
     Frame("object", [type |-> "echo", content |-> "hello"], "{echo}"),
     Frame("object", [type |-> "custom", data |-> "value"], "{custom}"),
     Frame("object", [type |-> "send_message", group_id |-> "g1", content |-> "hello"],
           "{send_message}")}

\* No payload is being sent.
NoPayload == << >>

\* The payload send_error(error_message, error_code) sends: handler.py 177-184.
error_data(error_message, error_code) ==
    LET d == [type |-> "error", message |-> error_message]
    IN  IF Truthy(error_code) THEN DictSet(d, "code", error_code) ELSE d

\* A faulty welcome: it does not name the user.
welcome_data_anonymous(user_id) ==
    [type |-> "welcome", message |-> "welcome, " \o None, user_id |-> None]

\* The welcome payload of on_connect: handler.py 242-246, im_handler.py 64-68.
welcome_data(user_id) ==
    [type |-> "welcome", message |-> "welcome, " \o user_id, user_id |-> user_id]

\* A faulty pong: the timestamp is the server's, not the client's.
pong_data_server_time(data) == [type |-> "pong", timestamp |-> "t1"]

\* The pong payload: handler.py 263-266, im_handler.py 93-96.
pong_data(data) == [type |-> "pong", timestamp |-> DictGet(data, "timestamp", None)]

\* The default branch of SimpleWebSocketHandler.on_message: handler.py 276-280.
simple_default(data, raw) ==
    [type |-> "message", content |-> data, message |-> "received: " \o raw]

\* SimpleWebSocketHandler.on_message up to its send: the payload it sends for a
\* frame. json.loads of a frame that is JSON but no dict gives a value without
\* get: the AttributeError is caught at line 282 and an error is sent.
simple_on_message(frame) ==
    IF frame.json = "nonobject"
    THEN error_data("message processing failed", "MESSAGE_PROCESSING_ERROR")
    ELSE LET data == IF frame.json = "invalid"
                     THEN [type |-> "text", content |-> frame.raw]
                     ELSE frame.data
             message_type == IF frame.json = "invalid" THEN "text"
                             ELSE DictGet(data, "type", "unknown")
         IN  IF message_type = "ping" THEN pong_data(data)
             ELSE IF message_type = "echo"
                  THEN [type |-> "echo", content |-> DictGet(data, "content", ""),
                        original |-> data]
             ELSE simple_default(data, frame.raw)

\* A faulty unknown-type branch: the frame is echoed as a message payload.
im_unknown_type_echo(message_type) ==
    [type |-> "message", content |-> message_type]

\* The last branch of IMWebSocketHandler.on_message: im_handler.py 100-105.
im_unknown_type(message_type) ==
    error_data("unknown message type: " \o message_type, "UNKNOWN_MESSAGE_TYPE")

\* MessageService.send_message(message_create, from_user_id) and the commit:
\* what it raises, "ok" when the message is created. exists and members are the
\* group's row and member rows, create is what the insert does.
message_service_send_message(exists, members, from_user_id, create) ==
    IF ~exists THEN "NotFoundError"
    ELSE IF \A i \in DOMAIN members : members[i] /= from_user_id THEN "NotFoundError"
    ELSE IF create = "ok" THEN "ok"
    ELSE IF create = "unique" THEN "ConflictError"
    ELSE "ValidationError"

\* A faulty error reply: every failure of the service gets the same code.
send_message_error_generic(raised) ==
    error_data("send message failed", "SEND_MESSAGE_FAILED")

\* The except clauses of handle_send_message: im_handler.py 189-198.
send_message_error(raised) ==
    IF raised = "NotFoundError" THEN error_data("not found", "NOT_FOUND")
    ELSE IF raised = "ValidationError" THEN error_data("validation", "VALIDATION_ERROR")
    ELSE error_data("send message failed", "SEND_MESSAGE_FAILED")

\* The new_message dict given to send_message_to_group: im_handler.py 168-176.
new_message_data(data, from_user_id) ==
    [type |-> "new_message", message_id |-> "m1", group_id |-> data["group_id"],
     from_user_id |-> from_user_id, msg_type |-> "TEXT",
     msg_content |-> data["content"], created_at |-> "t0"]

\* The message_sent payload: im_handler.py 181-187.
message_sent_data(data) ==
    [type |-> "message_sent", message_id |-> "m1", group_id |-> data["group_id"],
     content |-> data["content"], created_at |-> "t0"]

\* IMWebSocketHandler.on_message and handle_send_message up to the first send
\* or the call of the message service: what the handler does with a frame.
\* "reply": it sends the payload; "send_message": it calls the message service.
im_on_message(frame) ==
    IF frame.json = "invalid"
    THEN [do |-> "reply", payload |-> error_data("invalid format", "INVALID_FORMAT")]
    ELSE IF frame.json = "nonobject"
    THEN [do |-> "reply",
          payload |-> error_data("message processing failed", "MESSAGE_PROCESSING_ERROR")]
    ELSE LET data == frame.data
             message_type == DictGet(data, "type", "unknown")
         IN  IF message_type = "ping"
             THEN [do |-> "reply", payload |-> pong_data(data)]
             ELSE IF message_type = "send_message"
             THEN IF ~Truthy(DictGet(data, "group_id", None))
                  THEN [do |-> "reply",
                        payload |-> error_data("missing group_id", "MISSING_GROUP_ID")]
                  ELSE IF ~Truthy(DictGet(data, "content", None))
                  THEN [do |-> "reply",
                        payload |-> error_data("missing content", "MISSING_CONTENT")]
                  ELSE [do |-> "send_message", payload |-> NoPayload]
             ELSE [do |-> "reply", payload |-> im_unknown_type(message_type)]

\* ------------------------------------- the handlers at work (HandlerSpec)

\* The handler classes.
Kinds == {"simple", "im"}

\* What the insert of MessageService.send_message does: it succeeds, or raises
\* IntegrityError on a unique key, or on another constraint.
Creates == {"ok", "unique", "constraint"}

\* The groups of the database, as their member lists in joining order.
ProtoGroups == {<<"A">>, <<"A", "B">>}

\* The handler calls the message service for the frame.
CallsService(kind, frame) == kind = "im" /\ im_on_message(frame).do = "send_message"

\* A faulty handler send: through the registry, to every websocket of the user.
send_message_targets_user(c, ac, user_id) ==
    IF user_id \in DOMAIN ac THEN ac[user_id] ELSE {}

\* WebSocketHandler.send_message: the websockets it sends on (line 159).
send_message_targets(c, ac, user_id) == {c}

\* outbox after payload was sent on the websockets of S because of frame number
\* n of websocket c (0: because c connected).
Deliver(S, payload, c, n) ==
    [d \in Conns |-> IF d \in S
                     THEN Append(outbox[d], [payload |-> payload, cause |-> <<c, n>>])
                     ELSE outbox[d]]

\* The history of websocket c starts again: its handler takes the next frame, or
\* the endpoint has returned and the handler object is dropped.
Forget(c) == [outbox EXCEPT ![c] = <<>>]

\* websocket_endpoint: the route makes a handler of the class it is written
\* for (main.py 340), the same for every websocket.
ProtoStart(c, u, kind) ==
    /\ HandlerStart(c, u)
    /\ \A d \in Conns : h_kind[d] \in {"none", kind}
    /\ h_kind' = [h_kind EXCEPT ![c] = kind]
    /\ UNCHANGED <<h_frame, frames, h_reply, outbox, fmtVars>>

\* The accept returns and on_connect of the subclass sends the welcome payload.
ProtoAccept(c) ==
    /\ HandlerAccept(c)
    /\ h_reply' = [h_reply EXCEPT ![c] = IF h_pc'[c] = "welcome"
                                         THEN welcome_data(h_user[c]) ELSE NoPayload]
    /\ h_kind' = IF h_pc'[c] = "closed" THEN [h_kind EXCEPT ![c] = "none"] ELSE h_kind
    /\ UNCHANGED <<h_frame, frames, outbox, fmtVars>>

\* The welcome send comes back.
ProtoWelcome(c) ==
    /\ HandlerWelcome(c)
    /\ outbox' = IF h_pc'[c] = "receive"
                 THEN Deliver(send_message_targets(c, active_connections, h_user[c]),
                              h_reply[c], c, 0)
                 ELSE Forget(c)
    /\ h_reply' = [h_reply EXCEPT ![c] = NoPayload]
    /\ h_kind' = IF h_pc'[c] = "closed" THEN [h_kind EXCEPT ![c] = "none"] ELSE h_kind
    /\ UNCHANGED <<h_frame, frames, fmtVars>>

\* The frame as the handler of websocket c takes it now.
Taken(c, frame) == [frame EXCEPT !.n = frames + 1, !.after = h_frame[c].json]

\* The handler awaits the send of payload.
StartReply(c, frame, payload) ==
    /\ h_pc' = [h_pc EXCEPT ![c] = "reply"]
    /\ h_frame' = [h_frame EXCEPT ![c] = Taken(c, frame)]
    /\ h_reply' = [h_reply EXCEPT ![c] = payload]
    /\ UNCHANGED <<regVars, transport, h_user, h_disconnects, h_hooks, callVars,
                   histVars, fmtVars>>

\* A faulty handle_send_message: the fan-out is not in the try of the service
\* call, so that it runs whatever the service did.
after_service_always(svc) == "fanout"

\* What handle_send_message does after the service call: an exception goes to
\* the except clauses (im_handler.py 189-198), a return to the commit and the
\* fan-out (163-178).
after_service(svc) == IF svc = "ok" THEN "fanout" ELSE "error"

\* A faulty loop: every frame is handled by a task of its own, so the next
\* frame is taken while the reply to the last is still being sent.
receive_ready_concurrent(pc) == pc \in {"receive", "reply"}

\* The loop of handle_connection is at `await websocket.receive_text()`: the
\* on_message of the frame before has returned (handler.py 208-210).
receive_ready(pc) == pc = "receive"

\* receive_text gives a frame and on_message runs up to its first await that
\* suspends: the send of a reply, or a send of the fan-out to the group.
ProtoReceive(c, frame, exists, members, create) ==
    /\ result.op = "none"
    /\ receive_ready(h_pc[c])
    /\ transport[c] = "open"
    /\ frames < MaxFrames
    /\ CallsService(h_kind[c], frame) \/ (exists /\ members = <<"A">> /\ create = "ok")
    /\ frames' = frames + 1
    /\ outbox' = Forget(c)
    /\ h_kind' = h_kind
    /\ IF h_kind[c] = "simple"
       THEN StartReply(c, frame, simple_on_message(frame))
       ELSE LET r == im_on_message(frame)
                svc == message_service_send_message(exists, members, h_user[c], create)
                called == [frame EXCEPT !.svc = svc,
                                        !.members = IF svc = "ok" THEN members ELSE <<>>]
            IN  IF r.do = "reply" THEN StartReply(c, frame, r.payload)
                ELSE IF after_service(svc) = "error"
                THEN StartReply(c, called, send_message_error(svc))
                ELSE /\ SendMessageToGroupStart(members, h_user[c])
                     /\ h_pc' = [h_pc EXCEPT ![c] = "fanout"]
                     /\ h_frame' = [h_frame EXCEPT ![c] = Taken(c, called)]
                     /\ message' = format_message(new_message_data(frame.data, h_user[c]),
                                                  Clock[1])
                     /\ UNCHANGED <<regVars, transport, h_user, h_disconnects, h_hooks,
                                    bc, histVars, h_reply, fmt_arg, fmt_prev, fmt_calls>>

\* The handler whose send_message_to_group call runs.
FanoutOwner == CHOOSE c \in Conns : h_pc[c] = "fanout"

\* A send of the fan-out comes back.
ProtoSpmSendDone ==
    /\ spm.pc = "sending"
    /\ outbox' = IF send_ok(spm.websocket)
                 THEN Deliver({spm.websocket}, message, FanoutOwner,
                              h_frame[FanoutOwner].n)
                 ELSE outbox
    /\ SpmSendDone
    /\ UNCHANGED <<h_kind, h_frame, frames, h_reply, fmtVars>>

\* send_message_to_group comes back to handle_send_message: message_sent is
\* sent (line 181), or the call raised and the clause of line 195 sends an error.
ProtoFanoutDone(c) ==
    /\ h_pc[c] = "fanout"
    /\ result.op = "send_message_to_group"
    /\ h_pc' = [h_pc EXCEPT ![c] = "reply"]
    /\ h_reply' = [h_reply EXCEPT ![c] = IF result.raised
                                         THEN send_message_error("RuntimeError")
                                         ELSE message_sent_data(h_frame[c].data)]
    /\ result' = NoResult
    /\ obs' = NoObs
    /\ message' = << >>
    /\ UNCHANGED <<regVars, transport, h_user, h_disconnects, h_hooks, spm, grp, bc,
                   histVars, h_kind, h_frame, frames, outbox, fmt_arg, fmt_prev, fmt_calls>>

\* The send of a reply comes back and the loop awaits receive_text again. Or it
\* raises: every send_error tried in the except clauses on the way out raises
\* too, the exception leaves on_message and the loop ends at line 214.
ProtoReplyDone(c) ==
    /\ result.op = "none"
    /\ h_pc[c] = "reply"
    /\ h_reply' = [h_reply EXCEPT ![c] = NoPayload]
    /\ UNCHANGED <<frames, fmtVars>>
    /\ IF send_ok(c)
       THEN /\ outbox' = Deliver(send_message_targets(c, active_connections, h_user[c]),
                                 h_reply[c], c, h_frame[c].n)
            /\ h_pc' = [h_pc EXCEPT ![c] = "receive"]
            /\ UNCHANGED <<regVars, transport, h_user, h_disconnects, h_hooks, callVars,
                           histVars, h_kind, h_frame>>
       ELSE /\ HandlerExitWith(c, "loop_error", FALSE, FALSE)
            /\ outbox' = Forget(c)
            /\ h_kind' = [h_kind EXCEPT ![c] = "none"]
            /\ h_frame' = [h_frame EXCEPT ![c] = NoFrame]

\* receive_text raises: WebSocketDisconnect on a closed transport, another
\* exception on a frame that is not text. on_error of both classes only logs.
ProtoLeave(c) ==
    /\ result.op = "none"
    /\ h_pc[c] = "receive"
    /\ \/ transport[c] = "closed" /\ HandlerExitWith(c, "disconnect", FALSE, FALSE)
       \/ HandlerExitWith(c, "loop_error", FALSE, FALSE)
    /\ outbox' = Forget(c)
    /\ h_kind' = [h_kind EXCEPT ![c] = "none"]
    /\ h_frame' = [h_frame EXCEPT ![c] = NoFrame]
    /\ UNCHANGED <<frames, h_reply, fmtVars>>

\* ------------------------------------------------------------- specification

\* The registry is empty, no websocket is served, no call runs.
CoreInit ==
    /\ active_connections = << >>
    /\ connection_to_user = << >>
    /\ transport = [c \in Conns |-> "new"]
    /\ h_pc = [c \in Conns |-> "idle"]
    /\ h_user = [c \in Conns |-> None]
    /\ h_disconnects = [c \in Conns |-> 0]
    /\ h_hooks = [c \in Conns |-> <<>>]
    /\ spm = NoSpm
    /\ grp = NoGrp
    /\ bc = NoBc
    /\ result = NoResult
    /\ obs = NoObs
    /\ live = << >>

\* No message object is being normalized.
FmtIdle ==
    /\ message = << >>
    /\ fmt_arg = << >>
    /\ fmt_prev = << >>
    /\ fmt_calls = 0

\* No frame has come in and nothing was sent.
ProtoInit ==
    /\ h_kind = [c \in Conns |-> "none"]
    /\ h_frame = [c \in Conns |-> NoFrame]
    /\ frames = 0
    /\ h_reply = [c \in Conns |-> NoPayload]
    /\ outbox = [c \in Conns |-> <<>>]

\* No query was made.
QueryIdle == returned = NoReturned

Init == CoreInit /\ FmtIdle /\ ProtoInit /\ QueryIdle

Next ==
    \/ \E c \in ConcConns, u \in ConcUsers : HandlerStart(c, u) /\ UNCHANGED <<fmtVars, protoVars, queryVars>>
    \/ \E c \in ConcConns : HandlerAccept(c) /\ UNCHANGED <<fmtVars, protoVars, queryVars>>
    \/ \E c \in ConcConns : HandlerWelcome(c) /\ UNCHANGED <<fmtVars, protoVars, queryVars>>
    \/ \E c \in ConcConns : HandlerLeave(c) /\ UNCHANGED <<fmtVars, protoVars, queryVars>>
    \/ \E c \in ConcConns : TransportBreak(c) /\ UNCHANGED <<fmtVars, protoVars, queryVars>>
    \/ \E u \in ConcUsers : CallSendPersonalMessage(u) /\ UNCHANGED <<fmtVars, protoVars, queryVars>>
    \/ SpmSendDone /\ UNCHANGED <<fmtVars, protoVars, queryVars>>
    \/ \E x \in ConcUsers \cup {None} : CallBroadcast(x) /\ UNCHANGED <<fmtVars, protoVars, queryVars>>
    \/ BcSendDone /\ UNCHANGED <<fmtVars, protoVars, queryVars>>
    \/ TakeResult /\ UNCHANGED <<fmtVars, protoVars, queryVars>>

\* Every coroutine of the process interleaved at its awaits.
Spec == Init /\ [][Next]_vars

SeqNext ==
    \/ \E c \in Conns, u \in Users : ApiConnect(c, u) /\ UNCHANGED <<fmtVars, protoVars, queryVars>>
    \/ \E c \in Conns : ApiDisconnect(c) /\ UNCHANGED <<fmtVars, protoVars, queryVars>>
    \/ \E c \in Conns : TransportBreak(c) /\ UNCHANGED <<fmtVars, protoVars, queryVars>>
    \/ \E u \in Users : CallSendPersonalMessage(u) /\ UNCHANGED <<fmtVars, protoVars, queryVars>>
    \/ \E m \in MemberLists, x \in Users \cup {None} :
          CallSendMessageToGroup(m, x) /\ UNCHANGED <<fmtVars, protoVars, queryVars>>
    \/ \E x \in Users \cup {None} : CallBroadcast(x) /\ UNCHANGED <<fmtVars, protoVars, queryVars>>
    \/ SpmSendDone /\ UNCHANGED <<fmtVars, protoVars, queryVars>>
    \/ BcSendDone /\ UNCHANGED <<fmtVars, protoVars, queryVars>>
    \/ TakeResult /\ UNCHANGED <<fmtVars, protoVars, queryVars>>

\* One caller that makes one call of the registry or the push service after the
\* other: no other task runs while a call is suspended in a send.
SeqSpec == Init /\ [][SeqNext]_vars

HandlerNext ==
    \/ \E c \in ProtoConns, u \in ConcUsers, k \in Kinds : ProtoStart(c, u, k) /\ UNCHANGED queryVars
    \/ \E c \in ProtoConns : ProtoAccept(c) /\ UNCHANGED queryVars
    \/ \E c \in ProtoConns : ProtoWelcome(c) /\ UNCHANGED queryVars
    \/ \E c \in ProtoConns, frame \in Frames, exists \in BOOLEAN, members \in ProtoGroups,
          create \in Creates :
          ProtoReceive(c, frame, exists, members, create) /\ UNCHANGED queryVars
    \/ ProtoSpmSendDone /\ UNCHANGED queryVars
    \/ \E c \in ProtoConns : ProtoFanoutDone(c) /\ UNCHANGED queryVars
    \/ \E c \in ProtoConns : ProtoReplyDone(c) /\ UNCHANGED queryVars
    \/ \E c \in ProtoConns : ProtoLeave(c) /\ UNCHANGED queryVars
    \/ \E c \in ProtoConns : TransportBreak(c) /\ UNCHANGED <<fmtVars, protoVars, queryVars>>

\* The handlers of both classes serving their clients' frames, interleaved at
\* their awaits; one fan-out to a group runs at a time.
HandlerSpec == Init /\ [][HandlerNext]_vars

\* What every step of a handler or of its fan-out changes: the place of a
\* handler, or the count of the sends of the running call.
progress == <<h_pc, obs>>

\* The event loop runs every task that can go on: an awaited accept or send
\* comes back or raises, a call that has finished returns to the handler that
\* awaits it, and receive_text raises on a transport that is closed. That a
\* client sends another frame is not required.
HandlerFairness ==
    /\ \A c \in ProtoConns : WF_progress(ProtoAccept(c) /\ UNCHANGED queryVars)
    /\ \A c \in ProtoConns : WF_progress(ProtoWelcome(c) /\ UNCHANGED queryVars)
    /\ \A c \in ProtoConns : WF_progress(ProtoReplyDone(c) /\ UNCHANGED queryVars)
    /\ \A c \in ProtoConns : WF_progress(ProtoFanoutDone(c) /\ UNCHANGED queryVars)
    /\ \A c \in ProtoConns : WF_progress(/\ transport[c] = "closed"
                                         /\ ProtoLeave(c)
                                         /\ UNCHANGED queryVars)
    /\ WF_progress(ProtoSpmSendDone /\ UNCHANGED queryVars)

\* The handlers at work under the scheduling of the event loop.
FairHandlerSpec == HandlerSpec /\ HandlerFairness

QueryNext ==
    \/ \E c \in QueryConns, u \in QueryUsers :
          ApiConnect(c, u) /\ UNCHANGED <<fmtVars, protoVars, queryVars>>
    \/ \E c \in QueryConns : ApiDisconnect(c) /\ UNCHANGED <<fmtVars, protoVars, queryVars>>
    \/ \E c \in QueryConns : TransportBreak(c) /\ UNCHANGED <<fmtVars, protoVars, queryVars>>
    \/ \E u \in QueryUsers :
          CallSendPersonalMessage(u) /\ UNCHANGED <<fmtVars, protoVars, queryVars>>
    \/ SpmSendDone /\ UNCHANGED <<fmtVars, protoVars, queryVars>>
    \/ TakeResult /\ UNCHANGED <<fmtVars, protoVars, queryVars>>
    \/ \E op \in Queries, u \in QueryUsers :
          CallQuery(op, u) /\ UNCHANGED <<fmtVars, protoVars>>
    \/ \E u \in QueryUsers : CallerDiscards(u) /\ UNCHANGED <<fmtVars, protoVars>>

\* One caller of connect, disconnect and send_personal_message, with any
\* identity, and the queries made in between.
QuerySpec == Init /\ [][QueryNext]_vars

FmtInit ==
    /\ CoreInit
    /\ message \in Messages
    /\ fmt_arg = message
    /\ fmt_prev = message
    /\ fmt_calls = 0
    /\ ProtoInit
    /\ QueryIdle

FmtNext ==
    FormatMessage /\ UNCHANGED <<regVars, transport, handlerVars, callVars, histVars,
                                protoVars, queryVars>>

\* A caller that normalizes a message object, more than once.
FmtSpec == FmtInit /\ [][FmtNext]_vars

\* ------------------------------------------------------------------ claims

\* The forward-index sets that hold websocket c.
SetsOf(c) == {u \in DOMAIN active_connections : c \in active_connections[u]}

\* c is in neither index of the registry.
Absent(c) == c \notin DOMAIN connection_to_user /\ SetsOf(c) = {}

\* C1: in every reachable state a websocket is a key of connection_to_user iff
\* it is in exactly one set of active_connections, namely the set of the user
\* connection_to_user gives for it, and no key of active_connections has an
\* empty set.
C1_IndexConsistency ==
    /\ \A c \in Conns :
          /\ c \in DOMAIN connection_to_user <=> Cardinality(SetsOf(c)) = 1
          /\ c \in DOMAIN connection_to_user => SetsOf(c) = {connection_to_user[c]}
    /\ \A u \in DOMAIN active_connections : active_connections[u] /= {}

\* C1 witness: a handler has unregistered its websocket while another websocket
\* is registered.
C1_Witness ==
    \E c, d \in Conns :
        /\ h_pc[c] = "closed"
        /\ h_disconnects[c] = 1
        /\ d \in DOMAIN connection_to_user

\* C2: when handle_connection has finished, by whatever path, its handler has
\* called manager.disconnect exactly once, in on_disconnect, the last hook it
\* ran, and the websocket is in neither index.
C2_TeardownUnregisters ==
    \A c \in Conns :
        h_pc[c] = "closed" =>
            /\ h_disconnects[c] = 1
            /\ h_hooks[c] /= <<>>
            /\ h_hooks[c][Len(h_hooks[c])] = "on_disconnect"
            /\ Absent(c)

\* C2 witness: one handler has finished through both except clauses (on_error
\* raised in the loop's, then ran again in the outer one) while another
\* websocket is still served.
C2_Witness ==
    \E c, d \in Conns :
        /\ h_pc[c] = "closed"
        /\ Len(h_hooks[c]) = 3
        /\ h_pc[d] = "receive"
        /\ d \in DOMAIN connection_to_user

\* C3: send_personal_message never raises to its caller, whatever other tasks
\* register or unregister while it is suspended in a send.
C3_NeverRaises ==
    result.op = "send_personal_message" => ~result.raised

\* send_personal_message has returned (not raised) to a caller of its own.
SpmReturned == result.op = "send_personal_message" /\ ~result.raised

\* C4: when send_personal_message returns, every websocket whose send failed
\* during the call is in neither index and every websocket whose send succeeded
\* is still registered for the user; if the user had exactly one websocket and
\* its send failed, the call returns False and the user is not connected.
C4_SelfHealing ==
    SpmReturned =>
        /\ \A c \in obs.failed : Absent(c)
        /\ \A c \in obs.delivered :
              /\ c \in DOMAIN connection_to_user
              /\ connection_to_user[c] = result.user_id
              /\ SetsOf(c) = {result.user_id}
        /\ \A c \in Conns :
              (/\ result.user_id \in DOMAIN obs.ac
               /\ obs.ac[result.user_id] = {c}
               /\ c \in obs.failed)
              => result.value = FALSE /\ ~is_user_connected(result.user_id)

\* C4 witness: a call in which one send failed and another succeeded.
C4_Witness ==
    SpmReturned /\ obs.failed /= {} /\ obs.delivered /= {}

\* C5: send_personal_message returns True iff at least one websocket of the user
\* took the send during the call; for a user without entry it returns False,
\* sends nothing and leaves the registry as it was.
C5_ReturnValue ==
    SpmReturned =>
        /\ result.value = TRUE <=>
              \E c \in obs.delivered : c \in DOMAIN obs.c2u /\ obs.c2u[c] = result.user_id
        /\ result.value \in BOOLEAN
        /\ result.user_id \notin DOMAIN obs.ac =>
              /\ result.value = FALSE
              /\ \A c \in Conns : obs.sends[c] = 0
              /\ active_connections = obs.ac
              /\ connection_to_user = obs.c2u

\* C5 witness: every send of the call failed and the call returned False.
C5_Witness ==
    SpmReturned /\ obs.failed /= {} /\ obs.delivered = {} /\ result.value = FALSE

\* C6: disconnect on a websocket that is not registered (never was, or not any
\* more) returns None and leaves both indices as they were.
C6_DisconnectIdempotent ==
    (result.op = "disconnect" /\ result.websocket \notin DOMAIN obs.c2u) =>
        /\ result.value = None
        /\ active_connections = obs.ac
        /\ connection_to_user = obs.c2u

\* C6 witness: disconnect returned None for a websocket that was accepted and
\* registered before, so that this is not its first disconnect.
C6_Witness ==
    /\ result.op = "disconnect"
    /\ result.value = None
    /\ transport[result.websocket] = "open"

\* The websockets registered for u by a connect and not unregistered since.
LiveOf(u) == {c \in DOMAIN live : live[c] = u}

\* C7: get_user_connections_count(u) is the number of websockets registered for
\* u and not yet unregistered, and u is in get_connected_users() and
\* is_user_connected(u) holds exactly while that number is not 0.
C7_ConnectionCount ==
    \A u \in Users :
        /\ get_user_connections_count(u) = Cardinality(LiveOf(u))
        /\ u \in get_connected_users <=> Cardinality(LiveOf(u)) > 0
        /\ is_user_connected(u) <=> Cardinality(LiveOf(u)) > 0

\* C7 witness: a user had two websockets, both were sent to, the one whose send
\* failed was unregistered, and the count is 1 with the user still connected.
C7_Witness ==
    /\ SpmReturned
    /\ obs.failed /= {}
    /\ obs.delivered /= {}
    /\ get_user_connections_count(result.user_id) = 1
    /\ result.user_id \in get_connected_users

\* send_message_to_group has returned.
GrpReturned == result.op = "send_message_to_group" /\ ~result.raised

\* The elements of a member list.
Range(m) == {m[i] : i \in DOMAIN m}

\* The members send_message_to_group does not skip.
NotExcluded(members, exclude) == {m \in Range(members) : m /= exclude}

\* The websockets user m had when the call started.
ConnsAtStart(m) == IF m \in DOMAIN obs.ac THEN obs.ac[m] ELSE {}

\* C8: send_message_to_group returns the number of members not excluded that
\* got the payload on at least one websocket (0 and no send for an empty list);
\* a member's failure does not keep the later members from being sent to on
\* every websocket; afterwards a member that got the payload is connected, and
\* a member that was sent to without any success is not.
C8_GroupFanOut ==
    GrpReturned =>
        LET T == NotExcluded(result.members, result.exclude)
        IN  /\ result.value =
                  Cardinality({m \in T : ConnsAtStart(m) \cap obs.delivered /= {}})
            /\ result.members = <<>> =>
                  result.value = 0 /\ \A c \in Conns : obs.sends[c] = 0
            /\ \A m \in T : \A c \in ConnsAtStart(m) : obs.sends[c] = 1
            /\ \A m \in T :
                  IF ConnsAtStart(m) \cap obs.delivered /= {}
                  THEN is_user_connected(m)
                  ELSE ~is_user_connected(m)

\* C8 witness: members [A, B, C], the send to B failed: 2 is returned, B is no
\* longer connected, A and C are.
C8_Witness ==
    /\ GrpReturned
    /\ result.members = <<"A", "B", "C">>
    /\ result.value = 2
    /\ ConnsAtStart("B") /= {}
    /\ ~is_user_connected("B")
    /\ is_user_connected("A")
    /\ is_user_connected("C")

\* C9: with an excluded identity X, send_message_to_group sends on no websocket
\* of X, sends once on every websocket of every other connected member, and
\* the number it returns counts members other than X only.
C9_GroupExclusion ==
    (GrpReturned /\ Truthy(result.exclude)) =>
        LET X == result.exclude
        IN  /\ \A c \in ConnsAtStart(X) : obs.sends[c] = 0
            /\ \A m \in Range(result.members) \ {X} :
                  \A c \in ConnsAtStart(m) : obs.sends[c] = 1
            /\ result.value =
                  Cardinality({m \in Range(result.members) \ {X} :
                                  ConnsAtStart(m) \cap obs.delivered /= {}})

\* C9 witness: the excluded member is connected on two devices and another
\* member got the payload.
C9_Witness ==
    /\ GrpReturned
    /\ Truthy(result.exclude)
    /\ result.exclude \in Range(result.members)
    /\ Cardinality(ConnsAtStart(result.exclude)) = 2
    /\ result.value = 1

\* C10: broadcast sends once on every websocket of every user registered when
\* it is called, except the excluded user's, on which it sends nothing; it
\* returns the number of sends that succeeded; when it returns, every websocket
\* whose send failed is in neither index.
C10_Broadcast ==
    result.op = "broadcast" =>
        /\ \A c \in Conns :
              obs.sends[c] =
                 IF /\ c \in DOMAIN obs.c2u
                    /\ ~(Truthy(result.exclude) /\ obs.c2u[c] = result.exclude)
                 THEN 1 ELSE 0
        /\ result.value = Cardinality(obs.delivered)
        /\ \A c \in obs.failed : Absent(c)

\* C10 witness: a broadcast that left out a connected user, with one send that
\* failed and one that succeeded.
C10_Witness ==
    /\ result.op = "broadcast"
    /\ Truthy(result.exclude)
    /\ result.exclude \in DOMAIN obs.ac
    /\ obs.failed /= {}
    /\ obs.delivered /= {}

\* C11: _format_message sets type to "message" only when the dict has no type
\* key and sets timestamp only when it has no timestamp key; it adds no other
\* key; every key the caller wrote keeps its value (a type "custom" stays
\* "custom"); a second call on the normalized dict changes nothing.
C11_Normalization ==
    fmt_calls > 0 =>
        /\ DOMAIN message = DOMAIN fmt_prev \cup {"type", "timestamp"}
        /\ message["type"] =
              IF "type" \in DOMAIN fmt_prev THEN fmt_prev["type"] ELSE "message"
        /\ "timestamp" \in DOMAIN fmt_prev =>
              message["timestamp"] = fmt_prev["timestamp"]
        /\ "timestamp" \notin DOMAIN fmt_prev =>
              message["timestamp"] = Clock[fmt_calls]
        /\ \A k \in DOMAIN fmt_arg : message[k] = fmt_arg[k]
        /\ fmt_calls > 1 => message = fmt_prev

\* C11 witness: a dict with type "custom" and no timestamp was normalized twice.
C11_Witness ==
    /\ fmt_calls = 2
    /\ "type" \in DOMAIN fmt_arg
    /\ fmt_arg["type"] = "custom"
    /\ "timestamp" \notin DOMAIN fmt_arg
    /\ message["timestamp"] = Clock[1]

\* The handler of websocket c has handled its last frame and awaits the next.
Handled(c) == h_pc[c] = "receive" /\ h_frame[c].json /= "none"

\* Websocket c is registered for the identity of its handler.
Registered(c) ==
    /\ c \in DOMAIN connection_to_user
    /\ connection_to_user[c] = h_user[c]
    /\ SetsOf(c) = {h_user[c]}

\* The payloads sent on websocket d because of the last frame of websocket c.
CausedBy(c, d) ==
    SelectSeq(outbox[d], LAMBDA e : e.cause = <<c, h_frame[c].n>>)

\* The payloads the handler of websocket c sent on it for its last frame.
OwnReplies(c) == CausedBy(c, c)

\* The message type the handlers take from a frame that is a JSON object.
TypeOf(frame) == DictGet(frame.data, "type", "unknown")

\* The frame is a JSON object of a type the handler class has no branch for.
Unrecognised(kind, frame) ==
    /\ frame.json = "object"
    /\ IF kind = "simple" THEN TypeOf(frame) \notin {"ping", "echo"}
                          ELSE TypeOf(frame) \notin {"ping", "send_message"}

\* The payload is an error with a code and a message.
IsError(payload) ==
    /\ payload["type"] = "error"
    /\ "code" \in DOMAIN payload
    /\ "message" \in DOMAIN payload

\* C12 as stated: a frame of a type the handler does not recognise is answered
\* on its websocket with one error payload that has a code and a message, and
\* the websocket stays registered with its handler in the loop, for the handler
\* of /ws/{user_id} as for the IM handler.
C12_UnknownTypeError ==
    \A c \in Conns :
        (Handled(c) /\ Unrecognised(h_kind[c], h_frame[c])) =>
            /\ Len(OwnReplies(c)) = 1
            /\ IsError(OwnReplies(c)[1].payload)
            /\ transport[c] = "open" => Registered(c)

\* C12 amended: such a frame is answered on its websocket with one payload and
\* the websocket stays registered with its handler in the loop; the IM handler
\* answers with an error payload of code UNKNOWN_MESSAGE_TYPE and a message, the
\* handler of /ws/{user_id} with a payload of type message that carries the
\* frame.
C12_UnknownTypeReply ==
    \A c \in Conns :
        (Handled(c) /\ Unrecognised(h_kind[c], h_frame[c])) =>
            /\ Len(OwnReplies(c)) = 1
            /\ transport[c] = "open" => Registered(c)
            /\ LET payload == OwnReplies(c)[1].payload
               IN  IF h_kind[c] = "im"
                   THEN IsError(payload) /\ payload["code"] = "UNKNOWN_MESSAGE_TYPE"
                   ELSE payload["type"] = "message" /\ payload["content"] = h_frame[c].data

\* C12 witness: the IM handler has answered an echo frame, which it has no
\* branch for, and awaits the next frame on a registered websocket.
C12_Witness ==
    \E c \in Conns :
        /\ Handled(c)
        /\ h_kind[c] = "im"
        /\ TypeOf(h_frame[c]) = "echo"
        /\ Registered(c)
        /\ Len(OwnReplies(c)) = 1

\* The frame is neither a ping nor an echo for SimpleWebSocketHandler.
NeitherPingNorEcho(frame) ==
    frame.json /= "object" \/ TypeOf(frame) \notin {"ping", "echo"}

\* What the default branch carries of a frame: the decoded dict, or the text
\* of a frame that is no JSON.
ReceivedContent(frame) ==
    IF frame.json = "object" THEN frame.data
    ELSE [type |-> "text", content |-> frame.raw]

\* C13: SimpleWebSocketHandler answers every frame that is neither ping nor echo
\* with exactly one payload, of type message, that carries what was received,
\* and the websocket stays registered with its handler in the loop.
C13_DefaultEcho ==
    \A c \in Conns :
        (Handled(c) /\ h_kind[c] = "simple" /\ NeitherPingNorEcho(h_frame[c])) =>
            /\ Len(OwnReplies(c)) = 1
            /\ OwnReplies(c)[1].payload["type"] = "message"
            /\ OwnReplies(c)[1].payload["content"] = ReceivedContent(h_frame[c])
            /\ transport[c] = "open" => Registered(c)

\* The frame cannot be decoded as a JSON object.
Undecodable(json) == json \in {"invalid", "nonobject"}

\* C14: a frame that is no JSON, or JSON but no object, is answered with one
\* payload on its websocket and on no other, the websocket stays registered with
\* its handler in the loop, and the frame that comes after it is answered as it
\* would be at any other time.
C14_UndecodableRecovered ==
    \A c \in Conns :
        /\ (Handled(c) /\ Undecodable(h_frame[c].json)) =>
              /\ Len(OwnReplies(c)) = 1
              /\ \A d \in Conns \ {c} : CausedBy(c, d) = <<>>
              /\ transport[c] = "open" => Registered(c)
        /\ (Handled(c) /\ Undecodable(h_frame[c].after)) =>
              /\ Len(OwnReplies(c)) = 1
              /\ h_kind[c] = "simple" =>
                    OwnReplies(c)[1].payload = simple_on_message(h_frame[c])
              /\ (h_kind[c] = "im" /\ im_on_message(h_frame[c]).do = "reply") =>
                    OwnReplies(c)[1].payload = im_on_message(h_frame[c]).payload

\* C14 witness: a handler has answered a ping that came after a frame that is
\* JSON but no object, while the user has another websocket.
C14_Witness ==
    \E c, d \in Conns :
        /\ c /= d
        /\ Handled(c)
        /\ h_frame[c].after = "nonobject"
        /\ TypeOf(h_frame[c]) = "ping"
        /\ Registered(c)
        /\ Registered(d)
        /\ h_user[d] = h_user[c]

\* Websocket c is served: its handler is past the accept and has not finished.
Serving(c) == h_pc[c] \in {"welcome", "receive", "reply", "fanout"}

\* C15: while a websocket of user U is served on a working transport and no
\* other websocket of U is, U is connected with count 1; the first payload on the
\* websocket is welcome with user_id U; a ping is answered by one pong with the
\* ping's timestamp (None when it has none); a user none of whose websockets is
\* served is not connected.
C15_Lifecycle ==
    /\ \A c \in Conns :
          /\ (/\ Serving(c)
              /\ transport[c] = "open"
              /\ \A d \in Conns \ {c} : ~(Serving(d) /\ h_user[d] = h_user[c])) =>
                 /\ is_user_connected(h_user[c])
                 /\ get_user_connections_count(h_user[c]) = 1
          /\ (h_kind[c] = "simple" /\ h_pc[c] = "receive" /\ h_frame[c].json = "none") =>
                 /\ Len(outbox[c]) = 1
                 /\ outbox[c][1].payload["type"] = "welcome"
                 /\ outbox[c][1].payload["user_id"] = h_user[c]
          /\ (Handled(c) /\ h_frame[c].json = "object" /\ TypeOf(h_frame[c]) = "ping") =>
                 /\ Len(OwnReplies(c)) = 1
                 /\ OwnReplies(c)[1].payload["type"] = "pong"
                 /\ OwnReplies(c)[1].payload["timestamp"] =
                       DictGet(h_frame[c].data, "timestamp", None)
    /\ \A u \in Users :
          (\A c \in Conns : ~(Serving(c) /\ h_user[c] = u)) => ~is_user_connected(u)

\* C15 witness: the only client got its pong for a ping with timestamp 42, then
\* went away, and its handler has finished through the clean disconnect.
C15_Witness ==
    /\ frames = 1
    /\ h_pc[1] = "closed"
    /\ h_hooks[1] = <<"on_disconnect">>
    /\ h_pc[2] = "idle"
    /\ active_connections = << >>

\* The handler of websocket c has handled a send_message frame whose message
\* was created and committed.
Created(c) == Handled(c) /\ h_kind[c] = "im" /\ h_frame[c].svc = "ok"

\* The websockets that got a payload because of the last frame of websocket c.
Reached(c) == {d \in Conns : CausedBy(c, d) /= <<>>}

\* C16: when the message of a send_message frame was created, every websocket
\* of every other member of the group that stays connected is sent the
\* new_message payload once and gets it, no websocket of the sender is sent it,
\* and the sender's websocket gets one payload for the frame, message_sent.
C16_GroupMessage ==
    /\ (result.op = "send_message_to_group" /\ \E c \in Conns : h_pc[c] = "fanout") =>
          LET c == FanoutOwner
          IN  /\ message["type"] = "new_message"
              /\ \A m \in NotExcluded(h_frame[c].members, h_user[c]) :
                    \A d \in ConnsAtStart(m) :
                       (Registered(d) /\ transport[d] = "open") =>
                           obs.sends[d] = 1 /\ d \in obs.delivered
              /\ \A d \in ConnsAtStart(h_user[c]) : obs.sends[d] = 0
    /\ \A c \in Conns :
          Created(c) =>
             /\ Len(OwnReplies(c)) = 1
             /\ OwnReplies(c)[1].payload["type"] = "message_sent"
             /\ \A d \in Reached(c) \ {c} :
                   /\ h_user[d] /= h_user[c]
                   /\ Len(CausedBy(c, d)) = 1
                   /\ CausedBy(c, d)[1].payload["type"] = "new_message"

\* The fan-out of a created message went through: user A got message_sent on
\* websocket 1 and user B the new_message payload on websocket 2.
C16_Delivered ==
    /\ Created(1)
    /\ h_user[1] = "A"
    /\ h_user[2] = "B"
    /\ Reached(1) = {1, 2}
    /\ OwnReplies(1)[1].payload["type"] = "message_sent"
    /\ CausedBy(1, 2)[1].payload["type"] = "new_message"

\* The payloads the handler of websocket c sent on websocket d.
SentBy(c, d) == SelectSeq(outbox[d], LAMBDA e : e.cause[1] = c)

\* The payloads sent on websocket d because websocket c connected.
OnConnect(c, d) == SelectSeq(outbox[d], LAMBDA e : e.cause = <<c, 0>>)

\* C17: what is sent because a websocket connected is one welcome payload with
\* the user_id of its handler, on that websocket and on no other, those of the
\* same user included; its handler sends nothing on it before the welcome, and
\* the welcome is there when the handler awaits its first frame.
C17_WelcomeOnly ==
    \A c \in Conns :
        /\ \A d \in Conns \ {c} : OnConnect(c, d) = <<>>
        /\ h_pc[c] \in {"idle", "accept", "welcome"} => SentBy(c, c) = <<>>
        /\ OnConnect(c, c) /= <<>> =>
              /\ SentBy(c, c)[1].cause = <<c, 0>>
              /\ Len(OnConnect(c, c)) = 1
              /\ SentBy(c, c)[1].payload["type"] = "welcome"
              /\ SentBy(c, c)[1].payload["user_id"] = h_user[c]
        /\ (h_pc[c] = "receive" /\ h_frame[c].json = "none") =>
              Len(OnConnect(c, c)) = 1 /\ Len(SentBy(c, c)) = 1

\* C17 witness: user A is served on two websockets; the second has just got its
\* welcome and the first, which has answered a frame since, got nothing of it.
C17_Witness ==
    /\ h_user[1] = "A"
    /\ h_user[2] = "A"
    /\ Handled(1)
    /\ Len(outbox[1]) = 1
    /\ h_pc[2] = "receive"
    /\ h_frame[2].json = "none"
    /\ Len(outbox[2]) = 1
    /\ outbox[2][1].payload = welcome_data("A")

\* The message service failed for the last frame of websocket c, which its
\* handler has answered.
ServiceFailed(c) ==
    Handled(c) /\ h_kind[c] = "im" /\ h_frame[c].svc \notin {"none", "ok"}

\* The error code that goes with a failure of the message service.
MatchingCode(svc) ==
    IF svc = "NotFoundError" THEN "NOT_FOUND"
    ELSE IF svc = "ValidationError" THEN "VALIDATION_ERROR"
    ELSE "SEND_MESSAGE_FAILED"

\* The handler of websocket c takes a step of handling a frame for which the
\* message service fails: it takes the frame, or its error reply is sent.
FailedFrameStep(c) ==
    /\ h_pc[c] /= h_pc'[c]
    /\ h_pc'[c] \in {"reply", "receive"}
    /\ h_kind'[c] = "im"
    /\ h_frame'[c].svc \notin {"none", "ok"}

\* C18: when the message service fails for a send_message frame, the websocket
\* the frame came on gets one error payload with the code of the failure
\* (NOT_FOUND, VALIDATION_ERROR, or SEND_MESSAGE_FAILED for any other), no
\* other websocket gets a payload because of the frame, the websocket stays
\* registered with its handler in the loop, and no step of handling the frame
\* changes the registry.
C18_ServiceFailure ==
    /\ [](\A c \in Conns :
            ServiceFailed(c) =>
               /\ Len(OwnReplies(c)) = 1
               /\ IsError(OwnReplies(c)[1].payload)
               /\ OwnReplies(c)[1].payload["code"] = MatchingCode(h_frame[c].svc)
               /\ Reached(c) = {c}
               /\ transport[c] = "open" => Registered(c))
    /\ [][\A c \in Conns : FailedFrameStep(c) => UNCHANGED regVars]_vars

\* C18 witness: a user sent a send_message frame for a group that is not there
\* or not theirs, got the error, and awaits the next frame while another user
\* is served too.
C18_Witness ==
    \E c, d \in Conns :
        /\ ServiceFailed(c)
        /\ h_frame[c].svc = "NotFoundError"
        /\ Registered(c)
        /\ Registered(d)
        /\ h_user[d] /= h_user[c]
        /\ h_pc[d] = "receive"

\* connect(websocket, user_id) was called and its accept raised.
AcceptFailed == result.op = "connect" /\ result.raised

\* C19: when the accept of connect raises, both indices are what they were
\* when connect was called; a websocket that was not registered then is in
\* neither index, and a user that had no set then has none, not an empty one.
C19_AcceptFailure ==
    AcceptFailed =>
        /\ active_connections = obs.ac
        /\ connection_to_user = obs.c2u
        /\ result.websocket \notin DOMAIN obs.c2u => Absent(result.websocket)
        /\ result.user_id \notin DOMAIN obs.ac =>
              result.user_id \notin DOMAIN active_connections

\* C19 witness: user A is registered on websocket 1; connect of websocket 2 for
\* user B, who has no websocket, failed at the accept.
C19_Witness ==
    /\ AcceptFailed
    /\ result.websocket = 2
    /\ result.user_id = "B"
    /\ transport[2] = "closed"
    /\ active_connections = [u \in {"A"} |-> {1}]
    /\ connection_to_user = [c \in {1} |-> "A"]

\* The handler of websocket c, past its accept, leaves for a failure of the
\* transport: receive_text raised, or a send of the handler did.
TransportFailure(c) ==
    /\ h_pc[c] \in {"welcome", "receive", "reply"}
    /\ h_pc'[c] = "closed"

\* C20: a step in which the handler of websocket c leaves for a transport
\* failure runs its on_disconnect last, unregisters c, and leaves every other
\* handler where it is and every other registered websocket registered, those
\* of the same user included; a handler that has left never runs again, and its
\* websocket is never registered again.
C20_FailureIsLocal ==
    [][\A c \in Conns :
          /\ TransportFailure(c) =>
                /\ h_hooks'[c][Len(h_hooks'[c])] = "on_disconnect"
                /\ Absent(c)'
                /\ \A d \in Conns \ {c} :
                      /\ h_pc'[d] = h_pc[d]
                      /\ Registered(d) => Registered(d)'
          /\ h_pc[c] = "closed" => (h_pc'[c] = "closed" /\ Absent(c)')]_vars

\* C20 witness: user A was served on websockets 1 and 2; the handler of
\* websocket 1 has left through on_error, and websocket 2 is still registered
\* with its handler awaiting a frame.
C20_Witness ==
    /\ h_pc[1] = "closed"
    /\ h_hooks[1] = <<"on_error", "on_disconnect">>
    /\ Absent(1)
    /\ h_user[2] = "A"
    /\ h_pc[2] = "receive"
    /\ Registered(2)
    /\ active_connections = [u \in {"A"} |-> {2}]

\* The handler of websocket c takes a frame in this step.
TakesFrame(c) == h_frame'[c].json /= "none" /\ h_frame'[c].n /= h_frame[c].n

\* A payload is sent on websocket d in this step.
SentOn(d) == Len(outbox'[d]) = Len(outbox[d]) + 1

\* C21: the handler of a websocket takes a frame only when it awaits one, with
\* nothing left to send for the frame before, which has got its reply; frames
\* are taken in the order they came; and every payload sent because of a
\* websocket's frame, reply or push of its fan-out, is for the last frame its
\* handler took, so that the replies come in the order of their frames.
C21_InOrder ==
    [][\A c \in Conns :
          /\ TakesFrame(c) =>
                /\ h_pc[c] = "receive"
                /\ h_reply[c] = NoPayload
                /\ h_frame'[c].n > h_frame[c].n
                /\ h_frame'[c].after = h_frame[c].json
                /\ h_frame[c].json /= "none" => Len(OwnReplies(c)) = 1
          /\ SentOn(c) =>
                LET e == outbox'[c][Len(outbox'[c])]
                    by == e.cause[1]
                IN  /\ e.cause[2] = h_frame[by].n
                    /\ h_frame'[by].n = h_frame[by].n
                    /\ by = c => h_pc[c] \in {"welcome", "reply"}
                    /\ by /= c => h_pc[by] = "fanout"]_vars

\* C21 witness: the handler of websocket 1 has answered its second frame, an
\* echo that came after a ping.
C21_Witness ==
    /\ Handled(1)
    /\ h_frame[1].n = 2
    /\ h_frame[1].after = "object"
    /\ TypeOf(h_frame[1]) = "echo"
    /\ Len(OwnReplies(1)) = 1
    /\ OwnReplies(1)[1].payload["type"] = "echo"

\* Websocket c was registered by its handler and is no longer: the handler
\* has unregistered it on its way out, or a clean-up after a failed send has.
Gone(c) == h_pc[c] \notin {"idle", "accept"} /\ Absent(c)

\* C22: a websocket that was removed from the registry is never registered
\* again, no send of send_personal_message or broadcast on it succeeds any
\* more, and its handler sends nothing more on it: the handler stays where it
\* is until it leaves.
C22_NeverReused ==
    [][\A c \in Conns :
          Gone(c) =>
             /\ Absent(c)'
             /\ h_pc'[c] \in {h_pc[c], "closed"}
             /\ c \in obs'.delivered => c \in obs.delivered
             /\ Len(outbox'[c]) <= Len(outbox[c])]_vars

\* C22 witness: the clean-up of send_personal_message has removed websocket 1
\* after its send failed, while its handler still awaits a frame; websocket 2
\* of the same user got the payload.
C22_Witness ==
    /\ result.op = "send_personal_message"
    /\ obs.failed = {1}
    /\ obs.delivered = {2}
    /\ Gone(1)
    /\ h_pc[1] = "receive"
    /\ ~Absent(2)

\* The transport of websocket c, which its handler has accepted, is closed:
\* receive_text and send_text on it raise.
Failed(c) == Serving(c) /\ transport[c] = "closed"

\* Websocket c is in neither index and handle_connection of its handler has
\* returned.
Finished(c) == h_pc[c] = "closed" /\ Absent(c)

\* C23: under the scheduling of the event loop, a websocket a handler has
\* accepted and whose transport is closed is eventually in neither index of the
\* registry, with its handle_connection returned.
C23_EventuallyClosed ==
    \A c \in ProtoConns : Failed(c) ~> Finished(c)

\* C23 witness: the transport of websocket 1 broke while its handler awaited
\* the send of a reply; the handler has left through on_error and on_disconnect
\* and the websocket is in neither index.
C23_Witness ==
    /\ Finished(1)
    /\ frames = 1
    /\ h_hooks[1] = <<"on_error", "on_disconnect">>
    /\ h_disconnects[1] = 1

\* The websockets registered for user u in the reverse index.
RegisteredFor(u) == {c \in DOMAIN connection_to_user : connection_to_user[c] = u}

\* C24: the stats of /ws/stats agree with the registry they are read from:
\* total_connections is the number of registered websockets and the sum of the
\* sizes of the users' sets, connected_users_count is the length of
\* connected_users, a user is in connected_users exactly when a websocket is
\* registered for it, and total_connections is at least connected_users_count.
C24_Stats ==
    LET stats == websocket_stats
    IN  /\ stats.total_connections = Cardinality(DOMAIN connection_to_user)
        /\ stats.total_connections =
              SumSizes(active_connections, DOMAIN active_connections)
        /\ stats.connected_users_count = Len(stats.connected_users)
        /\ \A u \in Users \cup {None} :
              (u \in Range(stats.connected_users)) <=> (RegisteredFor(u) /= {})
        /\ stats.total_connections >= stats.connected_users_count

\* C24 witness: user A has two websockets and user B one: the stats are 3
\* connections of 2 users.
C24_Witness ==
    /\ websocket_stats.total_connections = 3
    /\ websocket_stats.connected_users_count = 2
    /\ Cardinality(RegisteredFor("A")) = 2
    /\ Cardinality(RegisteredFor("B")) = 1

\* The caller holds a set it got from get_connected_users, before and after
\* the step.
HoldsUsers ==
    returned.op = "get_connected_users" /\ returned'.op = "get_connected_users"

\* C25: while a caller holds the set get_connected_users returned, a step that
\* changes the registry does not change what is in that set, and a step that
\* changes what is in that set does not change the registry.
C25_Snapshot ==
    [][HoldsUsers =>
          /\ regVars' /= regVars => returned_users' = returned_users
          /\ returned_users' /= returned_users => regVars' = regVars]_vars

\* C25 witness: the caller holds the set {A} it got while user A was the only
\* one connected; since then A was unregistered and B registered.
C25_Witness ==
    /\ returned.op = "get_connected_users"
    /\ returned_users = {"A"}
    /\ get_connected_users = {"B"}

\* broadcast has come back to its caller.
BcFinished == result.op = "broadcast"

\* The websockets broadcast had in its list: those registered when it was
\* called, for a user other than the excluded one.
BcSnapshot == all_connections(obs.ac, result.exclude)

\* C26: however handlers register and unregister websockets while broadcast
\* awaits its sends, broadcast returns without raising, has tried a send once on
\* every websocket that was in its list when the call started, and on no other
\* websocket, those registered since included.
C26_BroadcastSnapshot ==
    BcFinished =>
        /\ ~result.raised
        /\ \A c \in BcSnapshot : obs.sends[c] = 1
        /\ \A c \in Conns \ BcSnapshot : obs.sends[c] = 0

\* C26 witness: broadcast was called with websocket 1 registered; while its
\* send was awaited the handler of websocket 1 left and websocket 2 was
\* registered; the send on 1 was tried and failed, none was tried on 2.
C26_Witness ==
    /\ BcFinished
    /\ BcSnapshot = {1}
    /\ obs.failed = {1}
    /\ h_pc[1] = "closed"
    /\ 2 \in DOMAIN connection_to_user
    /\ obs.sends[2] = 0

\* C26 second case: both websockets were in the list and the handler of one of
\* them left while the send on the other was awaited.
C26_LeftMeanwhile ==
    /\ BcFinished
    /\ BcSnapshot = {1, 2}
    /\ \E c \in {1, 2} : h_pc[c] = "closed" /\ c \notin obs.delivered

\* The handler of websocket c, an IM handler, has handled a send_message frame.
SendMessageHandled(c) ==
    /\ Handled(c)
    /\ h_kind[c] = "im"
    /\ h_frame[c].json = "object"
    /\ TypeOf(h_frame[c]) = "send_message"

\* C27: a send_message frame gets exactly one reply on the sender's websocket;
\* the reply is message_sent exactly when the message service created and
\* committed the message, whatever became of the fan-out afterwards, and an
\* error only when the message was not persisted.
C27_OneReply ==
    \A c \in Conns :
        SendMessageHandled(c) =>
            /\ Len(OwnReplies(c)) = 1
            /\ (OwnReplies(c)[1].payload["type"] = "message_sent") <=>
                  (h_frame[c].svc = "ok")
            /\ (OwnReplies(c)[1].payload["type"] = "error") =>
                  (h_frame[c].svc /= "ok")

\* The type of a payload (None where nothing is being sent).
PayloadType(payload) == IF "type" \in DOMAIN payload THEN payload["type"] ELSE None

\* C28: the fan-out of a send_message frame starts only when its message was
\* created and committed, so that no new_message is pushed for a message that
\* was not; message_sent is prepared only when the fan-out has come back, with a
\* send tried on every websocket of the other members that is still registered;
\* and it is sent after that, by the handler that awaits nothing else.
C28_FixedOrder ==
    [][\A c \in Conns :
          /\ (h_pc[c] /= "fanout" /\ h_pc'[c] = "fanout") => h_frame'[c].svc = "ok"
          /\ (h_pc[c] = "fanout" /\ PayloadType(h_reply'[c]) = "message_sent") =>
                /\ result.op = "send_message_to_group"
                /\ ~result.raised
                /\ \A m \in NotExcluded(h_frame[c].members, h_user[c]) :
                      \A d \in ConnsAtStart(m) :
                         (Registered(d) /\ transport[d] = "open") => obs.sends[d] = 1
          /\ SentOn(c) =>
                LET e == outbox'[c][Len(outbox'[c])]
                    by == e.cause[1]
                IN  /\ e.payload["type"] = "new_message" =>
                          /\ by /= c
                          /\ h_pc[by] = "fanout"
                          /\ h_frame[by].svc = "ok"
                    /\ e.payload["type"] = "message_sent" =>
                          /\ by = c
                          /\ h_pc[c] = "reply"
                          /\ h_frame[c].svc = "ok"]_vars

\* C28 witness: user B has got the new_message payload of user A's frame on
\* websocket 2, the fan-out has come back, and the send of message_sent on
\* websocket 1 is awaited.
C28_Witness ==
    /\ h_user[1] = "A"
    /\ h_pc[1] = "reply"
    /\ PayloadType(h_reply[1]) = "message_sent"
    /\ OwnReplies(1) = <<>>
    /\ Len(CausedBy(1, 2)) = 1
    /\ CausedBy(1, 2)[1].payload["type"] = "new_message"

\* disconnect(websocket) has returned for a websocket that connect had
\* registered.
DisconnectedRegistered ==
    result.op = "disconnect" /\ result.websocket \in DOMAIN obs.c2u

\* C29: disconnect of a registered websocket leaves it in neither index and
\* returns the identity it was registered for, whatever identity connect was
\* given, the empty string included.
C29_AnyIdentity ==
    DisconnectedRegistered =>
        /\ Absent(result.websocket)
        /\ result.value = obs.c2u[result.websocket]

\* disconnect has returned for a websocket registered for user A, which has
\* left both indices.
C29_Named ==
    /\ DisconnectedRegistered
    /\ obs.c2u[result.websocket] = "A"
    /\ result.value = "A"
    /\ Absent(result.websocket)

\* The part of the registry that is not user U's is what it was when the
\* running call started: the sets of the other users and the reverse entries
\* of their websockets.
OthersUntouched(U) ==
    /\ \A u \in (DOMAIN active_connections \cup DOMAIN obs.ac) \ {U} :
          /\ u \in DOMAIN active_connections
          /\ u \in DOMAIN obs.ac
          /\ active_connections[u] = obs.ac[u]
    /\ \A c \in DOMAIN connection_to_user \cup DOMAIN obs.c2u :
          LET now == IF c \in DOMAIN connection_to_user
                     THEN connection_to_user[c] ELSE None
              then == IF c \in DOMAIN obs.c2u THEN obs.c2u[c] ELSE None
          IN  (c \notin DOMAIN obs.c2u \/ then /= U) => now = then

\* C30: when send_personal_message(payload, U) has come back, or disconnect of
\* a websocket registered for U has, the sets and the reverse entries of every
\* other user are what they were before the call; and a step in which a query
\* gives its value, or its caller changes that value, leaves the registry as
\* it is.
C30_OnlyOwnPart ==
    /\ [](/\ result.op = "send_personal_message" => OthersUntouched(result.user_id)
          /\ result.op = "disconnect" =>
                OthersUntouched(IF result.websocket \in DOMAIN obs.c2u
                                THEN obs.c2u[result.websocket] ELSE None))
    /\ [][returned' /= returned => regVars' = regVars]_vars

\* C30 witness: send_personal_message for user A has unregistered A's
\* websocket 1, whose send failed, and user B is registered on websocket 2 as
\* before, with a transport that is closed as well.
C30_Witness ==
    /\ result.op = "send_personal_message"
    /\ result.user_id = "A"
    /\ obs.failed = {1}
    /\ Absent(1)
    /\ transport[2] = "closed"
    /\ connection_to_user = [c \in {2} |-> "B"]
    /\ obs.c2u = [c \in {1, 2} |-> IF c = 1 THEN "A" ELSE "B"]

====
